---- MODULE Spec2Model ----
(***************************************************************************)
(* Model of Azul_installer.py: the Zulu JDK bootstrap (setup_java) and the *)
(* functions it is built from.  Paths are sequences of path components,    *)
(* file contents are sequences of lines, package names are sequences of    *)
(* name fragments.  Every function of the source is an operator returning  *)
(* an outcome record (ok / value / raised error / new filesystem), and     *)
(* every step of setup_java is an action.                                  *)
(***************************************************************************)
EXTENDS Integers, Sequences, FiniteSets, TLC

VARIABLES
    system,       \* platform.system().lower()
    machine,      \* platform.machine().lower()
    is_root,      \* os.geteuid() == 0
    SHELL,        \* os.environ.get("SHELL", ""), as fragments
    home,         \* Path.home()
    ProgramFiles, \* os.environ["ProgramFiles"], <<>> when unset
    files,        \* shell startup files under home: name -> lines or NoFile
    base_dirs,    \* permanent base directories that exist
    installed,    \* destination path -> tree stored there, or NoTree
    scratch,      \* scratch directory id -> contents, or NoDir
    userenv,      \* Windows user-scope variable store
    pc,           \* position of the running setup_java
    run,          \* number of setup_java invocations started
    loc,          \* local variables of the running setup_java
    result,       \* value returned by setup_java, or NoResult
    error,        \* exception setup_java raised, or "none"
    stdout,       \* lines printed by the current invocation
    spawned,      \* commands the current invocation launched, in order
    trace         \* calls made by the unit drivers, oldest first

ctxVars == <<system, machine, is_root, SHELL, home, ProgramFiles>>
fsVars == <<files, base_dirs, installed, scratch, userenv>>
runVars == <<pc, run, loc, result, error, stdout, spawned>>
vars == <<ctxVars, fsVars, runVars, trace>>

----------------------------------------------------------------------------
(* Bounds *)

MaxPkgs == 3      \* longest metadata result set
MaxCalls == 2     \* calls a unit driver makes in one behaviour
MaxRuns == 2      \* setup_java invocations in one behaviour

----------------------------------------------------------------------------
(* Outcomes of a call *)

Ok(v) == [ok |-> TRUE, val |-> v, err |-> "none"]
Raise(e) == [ok |-> FALSE, val |-> <<>>, err |-> e]

NoPath == <<>>

Max(a, b) == IF a >= b THEN a ELSE b

----------------------------------------------------------------------------
(* normalize_os_arch *)

Systems == {"linux", "windows", "darwin", "freebsd"}
Machines == {"x86_64", "arm64", "riscv64"}

normalize_os_arch(sys, mach) ==
    IF sys \notin {"windows", "linux", "darwin"}
    THEN Raise("ValueError: Unsupported OS")
    ELSE IF mach \notin {"x86_64", "amd64", "aarch64", "arm64"}
    THEN Raise("ValueError: Unsupported architecture")
    ELSE Ok([os_name |-> CASE sys = "windows" -> "windows"
                           [] sys = "linux" -> "linux"
                           [] OTHER -> "macos",
             arch |-> IF mach \in {"x86_64", "amd64"} THEN "x86_64"
                      ELSE "aarch64"])

----------------------------------------------------------------------------
(* get_latest_zulu: selection of a package from the metadata result set.   *)
(* A package name is a sequence of fragments; lower() maps each fragment   *)
(* to lower case, "-crac-" in name is a fragment test, endswith looks at   *)
(* the last fragment.                                                      *)

Lower(frag) ==
    CASE frag = "-CRAC-" -> "-crac-"
      [] frag = ".ZIP" -> ".zip"
      [] OTHER -> frag

LowerName(name) == [i \in 1..Len(name) |-> Lower(name[i])]

Contains(name, frag) == \E i \in 1..Len(name) : name[i] = frag

EndsWith(name, suf) == Len(name) > 0 /\ name[Len(name)] = suf

Stem == "zulu21-ca-jdk-linux_x64"

PkgNames ==
    { <<Stem, ".tar.gz">>, <<Stem, "-crac-", ".tar.gz">>, <<Stem, ".tgz">>,
      <<Stem, ".zip">>, <<Stem, "-CRAC-", ".zip">>, <<Stem, ".ZIP">>,
      <<Stem, ".msi">>, <<Stem, "-crac-", ".msi">>, <<Stem, ".deb">> }

\* the record at position i of a result set carries download_url i
ResultSets ==
    UNION { { [i \in 1..n |-> [name |-> names[i], download_url |-> i]] :
              names \in [1..n -> PkgNames] } : n \in 0..MaxPkgs }

Skipped(pkg) == Contains(LowerName(pkg.name), "-crac-")

\* pick() without the "-crac-" test of line 69
Matches_NoCracTest(pkg, suffix) ==
    \E suf \in suffix : EndsWith(LowerName(pkg.name), suf)

Matches(pkg, suffix) ==
    /\ ~Skipped(pkg)
    /\ \E suf \in suffix : EndsWith(LowerName(pkg.name), suf)

\* pick(suffix): index of the first record that passes, 0 for None
pick(data, suffix) ==
    IF \E i \in 1..Len(data) : Matches(data[i], suffix)
    THEN CHOOSE i \in 1..Len(data) :
            /\ Matches(data[i], suffix)
            /\ \A j \in 1..(i - 1) : ~Matches(data[j], suffix)
    ELSE 0

\* the two operands of "or" in lines 77-82 exchanged
PickOr_Swapped(data, first, second) ==
    IF pick(data, second) /= 0 THEN pick(data, second) ELSE pick(data, first)

PickOr(data, first, second) ==
    IF pick(data, first) /= 0 THEN pick(data, first) ELSE pick(data, second)

Preferred(os) == IF os = "windows" THEN {".msi"} ELSE {".tar.gz", ".tgz"}

get_latest_zulu(os, data) ==
    IF Len(data) = 0
    THEN Raise("ValueError: No matching Zulu JDK found.")
    ELSE LET found == PickOr(data, Preferred(os), {".zip"})
         IN  IF found = 0
             THEN Raise("ValueError: No suitable package found")
             ELSE Ok([download_url |-> data[found].download_url,
                      name |-> data[found].name])

----------------------------------------------------------------------------
(* choose_permanent_base *)

Homes == { <<"/", "home", "dev">>, <<"/", "root">>,
           <<"/", "Users", "dev">>, <<"C:", "Users", "dev">> }
ProgramFilesValues == { NoPath, <<"C:", "Program Files">>, <<"D:", "Apps">> }

\* os.eniron is not an attribute of the os module (lines 119 and 121)
choose_permanent_base(os, root, hm, pf) ==
    CASE os = "linux" ->
           Ok(IF root THEN <<"/", "usr", "local", "lib", "jvm">>
              ELSE hm \o <<".local", "share", "java">>)
      [] os = "macos" ->
           Ok(IF root THEN <<"/", "Library", "Java", "JavaVirtualMachines">>
              ELSE hm \o <<"Library", "Java", "JavaVirtualMachines">>)
      [] os = "windows" -> Raise("AttributeError: os.eniron")
      [] OTHER -> Raise("AttributeError: os.eniron")

----------------------------------------------------------------------------
(* Filesystem values *)

NoFile == <<[k |-> "NoFile", root |-> NoPath]>>
NoDir == [exists |-> FALSE, entries |-> {}]
NoResult == [mode |-> "NoResult"]

DistNames == {"zulu21-ca-jdk-linux_x64", "zulu17-ca-jdk-linux_x64"}

\* a distribution tree: the build it was unpacked from (0: present before
\* the first run) and whether every file of it arrived
Tree(b, c) == [build |-> b, complete |-> c]

Dir(n, t) == [name |-> n, is_dir |-> TRUE, tree |-> t]
File(n) == [name |-> n, is_dir |-> FALSE, tree |-> Tree(0, TRUE)]

\* the existence test of line 137 dropped: the move is always attempted
Exists_Never(path) == FALSE

Exists(path) == \E e \in installed : e.path = path

----------------------------------------------------------------------------
(* move_extracted_to_base.  src is the directory iterdir() lists first     *)
(* (listing order is the filesystem's), io the fate of mkdir and move.     *)

SubDirs(tmp) == { e \in scratch[tmp].entries : e.is_dir }

RelocIO == {"ok", "mkdir_fails", "move_fails", "move_fails_partial"}

Effect(out, bd, ins, scr, printed) ==
    [ok |-> out.ok, val |-> out.val, err |-> out.err,
     base_dirs |-> bd, installed |-> ins, scratch |-> scr, out |-> printed]

\* base.mkdir of line 135 moved above the emptiness test of line 132
move_extracted_to_base_MkdirFirst(tmp, base, src, io) ==
    LET dest == base \o <<src.name>>
        made == base_dirs \cup {base}
    IN  IF SubDirs(tmp) = {}
        THEN Effect(Raise("RuntimeError: Extraction failed"),
                    made, installed, scratch, <<>>)
        ELSE IF Exists(dest)
        THEN Effect(Ok(dest), made, installed, scratch,
                    <<[msg |-> "already exists", path |-> dest]>>)
        ELSE Effect(Ok(dest), made,
                    installed \cup {[path |-> dest, tree |-> src.tree]},
                    [scratch EXCEPT ![tmp].entries = @ \ {src}],
                    <<[msg |-> "Moved JDK to", path |-> dest]>>)

move_extracted_to_base(tmp, base, src, io) ==
    LET dest == base \o <<src.name>>
        made == base_dirs \cup {base}
    IN  IF SubDirs(tmp) = {}
        THEN Effect(Raise("RuntimeError: Extraction failed"),
                    base_dirs, installed, scratch, <<>>)
        ELSE IF io = "mkdir_fails" /\ base \notin base_dirs
        THEN Effect(Raise("OSError: mkdir"),
                    base_dirs, installed, scratch, <<>>)
        ELSE IF Exists(dest)
        THEN Effect(Ok(dest), made, installed, scratch,
                    <<[msg |-> "already exists", path |-> dest]>>)
        ELSE IF io = "move_fails"
        THEN Effect(Raise("OSError: move"), made, installed, scratch, <<>>)
        ELSE IF io = "move_fails_partial"
        THEN Effect(Raise("OSError: move"), made,
                    installed \cup
                      {[path |-> dest, tree |-> Tree(src.tree.build, FALSE)]},
                    scratch, <<>>)
        ELSE Effect(Ok(dest), made,
                    installed \cup {[path |-> dest, tree |-> src.tree]},
                    [scratch EXCEPT ![tmp].entries = @ \ {src}],
                    <<[msg |-> "Moved JDK to", path |-> dest]>>)

----------------------------------------------------------------------------
(* persist_env_posix *)

Line(kind) == [k |-> kind, root |-> NoPath]
Marker == Line("# >>> zulu-jdk (managed) >>>")

Block(jdk_root) ==
    << Line(""),
       Marker,
       [k |-> "export JAVA_HOME=", root |-> jdk_root],
       Line("export PATH=$JAVA_HOME/bin:$PATH"),
       Line("# <<< zulu-jdk (managed) <<<") >>

ProfileNames == {".zshrc", ".zprofile", ".bashrc", ".profile"}

FileExists(fs, name) == fs[name] /= NoFile

HasMarker(text) == \E i \in 1..Len(text) : text[i] = Marker

MarkerCount(text) == Cardinality({ i \in 1..Len(text) : text[i] = Marker })

Shells == { <<>>, <<"/bin/", "bash">>, <<"/bin/", "zsh">>,
            <<"/usr/local/bin/", "zsh", "-5.9">> }

Candidates(shell) ==
    IF \E i \in 1..Len(shell) : shell[i] = "zsh"
    THEN <<".zshrc", ".zprofile">>
    ELSE <<".bashrc", ".profile">>

\* the candidates searched from the last to the first
Target_LastExisting(fs, shell) ==
    LET c == Candidates(shell)
    IN  IF FileExists(fs, c[2]) THEN c[2]
        ELSE IF FileExists(fs, c[1]) THEN c[1]
        ELSE ".profile"

Target(fs, shell) ==
    LET c == Candidates(shell)
    IN  IF FileExists(fs, c[1]) THEN c[1]
        ELSE IF FileExists(fs, c[2]) THEN c[2]
        ELSE ".profile"

PosixIO == {"ok", "read_fails", "write_fails"}

\* the marker test of line 158 dropped: the block is always appended
persist_env_posix_NoMarkerTest(fs, shell, jdk_root, io) ==
    LET target == Target(fs, shell)
        text == IF FileExists(fs, target) THEN fs[target] ELSE <<>>
    IN  [ok |-> TRUE, err |-> "none",
         files |-> [fs EXCEPT ![target] = text \o Block(jdk_root)],
         out |-> <<[msg |-> "Added JAVA_HOME/PATH", path |-> <<target>>]>>]

persist_env_posix(fs, shell, jdk_root, io) ==
    LET target == Target(fs, shell)
        text == IF FileExists(fs, target) THEN fs[target] ELSE <<>>
    IN  IF io = "read_fails" /\ FileExists(fs, target)
        THEN [ok |-> FALSE, err |-> "OSError: read_text", files |-> fs,
              out |-> <<>>]
        ELSE IF HasMarker(text)
        THEN [ok |-> TRUE, err |-> "none", files |-> fs, out |-> <<>>]
        ELSE IF io = "write_fails"
        THEN [ok |-> FALSE, err |-> "OSError: open", files |-> fs,
              out |-> <<>>]
        ELSE [ok |-> TRUE, err |-> "none",
              files |-> [fs EXCEPT ![target] = text \o Block(jdk_root)],
              out |-> <<[msg |-> "Added JAVA_HOME/PATH", path |-> <<target>>]>>]

----------------------------------------------------------------------------
(* persist_env_windows_user: setx runs through cmd.exe with check=False, so *)
(* nothing is raised.  proc is os.environ of the calling process: cmd.exe   *)
(* expands %JAVA_HOME% from it when it is set there and leaves the text as  *)
(* written when it is not; {os.environ.get('PATH','')} is proc.PATH.        *)

JavaHomeBin == <<"%JAVA_HOME%", "bin">>

persist_env_windows_user(env, jdk_root, proc) ==
    [JAVA_HOME |-> jdk_root,
     PATH |-> << IF proc.JAVA_HOME = NoPath THEN JavaHomeBin
                 ELSE proc.JAVA_HOME \o <<"bin">> >> \o proc.PATH]

\* a command handed to subprocess.run: program, arguments, and the path
\* that stands where "<path>" is written
Exec(cmd, args, path) == [cmd |-> cmd, args |-> args, path |-> path]

SetxCommands(jdk_root) ==
    << Exec("setx", <<"JAVA_HOME", "<path>">>, jdk_root),
       Exec("setx", <<"PATH", "%JAVA_HOME%\\bin;<PATH>">>, NoPath) >>

----------------------------------------------------------------------------
(* install_zulu_msi: msiexec with check=True, io its exit *)

install_zulu_msi(msi_path, io) ==
    [ok |-> io = "ok",
     err |-> IF io = "ok" THEN "none" ELSE "CalledProcessError",
     spawned |-> << Exec("msiexec",
                         <<"/i", "<path>", "/qn",
                           "ADDLOCAL=FeatureJavaHome,FeatureEnvironment">>,
                         msi_path) >>,
     out |-> IF io = "ok"
             THEN << [msg |-> "Running MSI installer", path |-> NoPath],
                     [msg |-> "Azul JDK installed via MSI",
                      path |-> NoPath] >>
             ELSE << [msg |-> "Running MSI installer", path |-> NoPath] >>]

----------------------------------------------------------------------------
(* extract_archive: the suffix test is on the name as given (no lower()).  *)
(* content is what the archive holds at top level, io the fate of reading. *)

ArchiveContents ==
    { {}, {File("README")} }
    \cup { {Dir(n, Tree(1, TRUE))} : n \in DistNames }
    \cup { {Dir(n, Tree(1, TRUE)), File("README")} : n \in DistNames }
    \cup { { Dir(n, Tree(1, TRUE)) : n \in DistNames } }

extract_archive(fname, content, io) ==
    IF EndsWith(fname, ".zip") \/ EndsWith(fname, ".tar.gz")
                               \/ EndsWith(fname, ".tgz")
    THEN IF io = "ok" THEN Ok(content) ELSE Raise("BadArchive")
    ELSE Raise("ValueError: Unsupported archive format.")

----------------------------------------------------------------------------
(* Rest states shared by the specifications *)

\* locals of setup_java; probe is what ensure_java_installed() returned,
\* pending the exception travelling through the finally blocks
NoLoc ==
    [probe |-> "unset", os_name |-> "", arch |-> "", url |-> 0,
     fname |-> <<>>, tmpdir |-> 0, base |-> NoPath, tmp_extract |-> 0,
     jdk_root |-> NoPath, java_bin |-> NoPath, mode |-> "",
     pending |-> "none"]

RunIdle ==
    /\ pc = "idle"
    /\ run = 0
    /\ loc = NoLoc
    /\ result = NoResult
    /\ error = "none"
    /\ stdout = <<>>
    /\ spawned = <<>>

EmptyFS ==
    /\ files = [n \in ProfileNames |-> NoFile]
    /\ base_dirs = {}
    /\ installed = {}
    /\ scratch = [d \in {} |-> NoDir]
    /\ userenv = [JAVA_HOME |-> NoPath, PATH |-> <<>>]

OsOf(sys) == normalize_os_arch(sys, "x86_64").val.os_name

----------------------------------------------------------------------------
(* Unit driver: choose_permanent_base on every platform context *)

InitBase ==
    /\ system \in {"linux", "darwin", "windows"}
    /\ machine = "x86_64"
    /\ is_root \in BOOLEAN
    /\ SHELL = <<>>
    /\ home \in Homes
    /\ ProgramFiles \in ProgramFilesValues
    /\ EmptyFS
    /\ RunIdle
    /\ trace = <<>>

CallChooseBase ==
    /\ trace = <<>>
    /\ LET r == choose_permanent_base(OsOf(system), is_root, home,
                                      ProgramFiles)
       IN  trace' = <<[fn |-> "choose_permanent_base", ok |-> r.ok,
                       val |-> r.val, err |-> r.err]>>
    /\ UNCHANGED <<ctxVars, fsVars, runVars>>

NextBase == CallChooseBase

SpecBase == InitBase /\ [][NextBase]_vars

----------------------------------------------------------------------------
(* Unit driver: get_latest_zulu on every result set *)

InitResolve ==
    /\ system \in {"linux", "darwin", "windows"}
    /\ machine = "x86_64"
    /\ is_root = FALSE
    /\ SHELL = <<>>
    /\ home = <<"/", "home", "dev">>
    /\ ProgramFiles = NoPath
    /\ EmptyFS
    /\ RunIdle
    /\ trace = <<>>

CallGetLatestZulu ==
    /\ trace = <<>>
    /\ \E data \in ResultSets :
         LET r == get_latest_zulu(OsOf(system), data)
         IN  trace' = <<[fn |-> "get_latest_zulu", data |-> data,
                         ok |-> r.ok, val |-> r.val, err |-> r.err]>>
    /\ UNCHANGED <<ctxVars, fsVars, runVars>>

NextResolve == CallGetLatestZulu

SpecResolve == InitResolve /\ [][NextResolve]_vars

----------------------------------------------------------------------------
(* Unit driver: persist_env_posix called repeatedly on one home directory *)

JdkRoots == { <<"/", "home", "dev", ".local", "share", "java", n>> :
              n \in DistNames }

OtherLine == Line("alias ll=ls")

\* contents a startup file may have before the first call: empty, foreign
\* text, a marker line alone, one managed block, two managed blocks (what
\* two unsynchronised runs leave when both test before either appends)
InitTexts ==
    { <<>>, <<OtherLine>>, <<OtherLine, Marker>> }
    \cup { Block(r) : r \in JdkRoots }
    \cup { Block(r) \o <<OtherLine>> \o Block(r) : r \in JdkRoots }

InitPosix ==
    /\ system = "linux"
    /\ machine = "x86_64"
    /\ is_root = FALSE
    /\ SHELL \in Shells
    /\ home = <<"/", "home", "dev">>
    /\ ProgramFiles = NoPath
    /\ files \in [ProfileNames -> InitTexts \cup {NoFile}]
    /\ base_dirs = {}
    /\ installed = {}
    /\ scratch = [d \in {} |-> NoDir]
    /\ userenv = [JAVA_HOME |-> NoPath, PATH |-> <<>>]
    /\ RunIdle
    /\ trace = <<>>

CallPersistEnvPosix ==
    /\ Len(trace) < MaxCalls
    /\ \E jdk_root \in JdkRoots, io \in PosixIO :
         LET r == persist_env_posix(files, SHELL, jdk_root, io)
         IN  /\ files' = r.files
             /\ trace' = Append(trace,
                    [fn |-> "persist_env_posix",
                     target |-> Target(files, SHELL),
                     ok |-> r.ok, err |-> r.err, out |-> r.out])
    /\ UNCHANGED <<ctxVars, base_dirs, installed, scratch, userenv, runVars>>

NextPosix == CallPersistEnvPosix

SpecPosix == InitPosix /\ [][NextPosix]_vars

----------------------------------------------------------------------------
(* Unit driver: move_extracted_to_base called repeatedly, each call on a   *)
(* fresh scratch directory, into one base directory                        *)

UnitBase == choose_permanent_base(OsOf(system), is_root, home, NoPath).val

PriorInstalls(base) ==
    { S \in SUBSET { [path |-> base \o <<n>>, tree |-> Tree(0, c)] :
                       n \in DistNames, c \in BOOLEAN } :
        \A a, b \in S : a.path = b.path => a = b }

InitRelocate ==
    /\ system \in {"linux", "darwin"}
    /\ machine = "x86_64"
    /\ is_root \in BOOLEAN
    /\ SHELL = <<>>
    /\ home = <<"/", "home", "dev">>
    /\ ProgramFiles = NoPath
    /\ files = [n \in ProfileNames |-> NoFile]
    /\ installed \in PriorInstalls(UnitBase)
    /\ base_dirs \in {{}, {UnitBase}}
    /\ installed /= {} => UnitBase \in base_dirs
    /\ scratch = [d \in {} |-> NoDir]
    /\ userenv = [JAVA_HOME |-> NoPath, PATH |-> <<>>]
    /\ RunIdle
    /\ trace = <<>>

Unpacked(content, b) ==
    { [e EXCEPT !.tree = IF e.is_dir THEN Tree(b, TRUE) ELSE e.tree] :
      e \in content }

\* the caller's tempfile.mkdtemp() and unpacking, for the next call
PrepareScratch ==
    /\ Len(trace) < MaxCalls
    /\ Len(trace) + 1 \notin DOMAIN scratch
    /\ \E content \in ArchiveContents :
         scratch' = [d \in DOMAIN scratch \cup {Len(trace) + 1} |->
                       IF d \in DOMAIN scratch THEN scratch[d]
                       ELSE [exists |-> TRUE,
                             entries |-> Unpacked(content, d)]]
    /\ UNCHANGED <<ctxVars, files, base_dirs, installed, userenv, runVars,
                   trace>>

NoEntry == Dir("", Tree(0, TRUE))

FirstListed(tmp) == IF SubDirs(tmp) = {} THEN {NoEntry} ELSE SubDirs(tmp)

CallMoveExtractedToBase ==
    /\ Len(trace) + 1 \in DOMAIN scratch
    /\ LET tmp == Len(trace) + 1
       IN  \E src \in FirstListed(tmp), io \in RelocIO :
             LET r == move_extracted_to_base(tmp, UnitBase, src, io)
             IN  /\ base_dirs' = r.base_dirs
                 /\ installed' = r.installed
                 /\ scratch' = r.scratch
                 /\ trace' = Append(trace,
                        [fn |-> "move_extracted_to_base", tmp |-> tmp,
                         base |-> UnitBase, src_root |-> src.name,
                         ok |-> r.ok, val |-> r.val, err |-> r.err,
                         out |-> r.out])
    /\ UNCHANGED <<ctxVars, files, userenv, runVars>>

NextRelocate == PrepareScratch \/ CallMoveExtractedToBase

SpecRelocate == InitRelocate /\ [][NextRelocate]_vars

----------------------------------------------------------------------------
(* Unit driver: persist_env_windows_user called repeatedly; each call is   *)
(* made by a process started from the user store as it is now, or by a     *)
(* process that was already running at an earlier call                     *)

WinRoots == { <<"C:", "Program Files", "Zulu", n>> : n \in DistNames }

WinPaths ==
    { <<>>, << <<"C:", "Windows", "system32">> >>,
      << <<"C:", "Windows", "system32">>, <<"C:", "Tools">> >>,
      << <<"C:", "Tools">> >> }

InitWindows ==
    /\ system = "windows"
    /\ machine = "x86_64"
    /\ is_root \in BOOLEAN
    /\ SHELL = <<>>
    /\ home = <<"C:", "Users", "dev">>
    /\ ProgramFiles \in ProgramFilesValues
    /\ files = [n \in ProfileNames |-> NoFile]
    /\ base_dirs = {}
    /\ installed = {}
    /\ scratch = [d \in {} |-> NoDir]
    /\ userenv \in [JAVA_HOME : {NoPath}, PATH : WinPaths]
    /\ RunIdle
    /\ trace = <<>>

CallPersistEnvWindowsUser ==
    /\ Len(trace) < MaxCalls
    /\ \E jdk_root \in WinRoots,
          proc \in {userenv} \cup { trace[i].proc : i \in 1..Len(trace) } :
         /\ userenv' = persist_env_windows_user(userenv, jdk_root, proc)
         /\ trace' = Append(trace,
                [fn |-> "persist_env_windows_user", jdk_root |-> jdk_root,
                 proc |-> proc, fresh |-> proc = userenv,
                 spawned |-> SetxCommands(jdk_root)])
    /\ UNCHANGED <<ctxVars, files, base_dirs, installed, scratch, runVars>>

NextWindows == CallPersistEnvWindowsUser

SpecWindows == InitWindows /\ [][NextWindows]_vars

----------------------------------------------------------------------------
(* Two invocations of move_extracted_to_base running at once for one       *)
(* distribution name and one base directory, each on its own scratch       *)
(* directory.  pc and loc are per invocation here.  shutil.move is taken   *)
(* apart into the system calls it makes: the isdir test on the             *)
(* destination, os.rename, and, when rename raises OSError (another        *)
(* device, or a destination that is a directory with content), copytree    *)
(* (os.makedirs, then the copy) followed by rmtree of the source.  What    *)
(* is installed beforehand is complete, so that an incomplete tree at the  *)
(* end is one these two invocations left.                                  *)

Procs == {1, 2}

RaceContents(n) ==
    { {Dir(n, Tree(1, TRUE))}, {Dir(n, Tree(1, TRUE)), File("README")} }

RaceLoc(same_device) ==
    [src |-> NoEntry, dest |-> NoPath, real_dst |-> NoPath,
     same_device |-> same_device]

InitRace ==
    /\ system \in {"linux", "darwin"}
    /\ machine = "x86_64"
    /\ is_root \in BOOLEAN
    /\ SHELL = <<>>
    /\ home = <<"/", "home", "dev">>
    /\ ProgramFiles = NoPath
    /\ files = [n \in ProfileNames |-> NoFile]
    /\ installed \in { S \in PriorInstalls(UnitBase) :
                        \A e \in S : e.tree.complete }
    /\ base_dirs \in {{}, {UnitBase}}
    /\ installed /= {} => UnitBase \in base_dirs
    /\ \E n \in DistNames : \E content \in RaceContents(n) :
         scratch = [p \in Procs |->
                      [exists |-> TRUE, entries |-> Unpacked(content, p)]]
    /\ userenv = [JAVA_HOME |-> NoPath, PATH |-> <<>>]
    /\ pc = [p \in Procs |-> "iterdir"]
    /\ \E same_device \in BOOLEAN : loc = [p \in Procs |-> RaceLoc(same_device)]
    /\ run = 0
    /\ result = NoResult
    /\ error = "none"
    /\ stdout = <<>>
    /\ spawned = <<>>
    /\ trace = <<>>

RaceFrame == <<ctxVars, files, userenv, run, result, error, stdout, spawned>>

Returns(p, out, printed) ==
    trace' = Append(trace,
                [fn |-> "move_extracted_to_base", tmp |-> p,
                 base |-> UnitBase, src_root |-> loc[p].src.name,
                 ok |-> out.ok, val |-> out.val, err |-> out.err,
                 out |-> printed])

\* lines 131-134
Iterdir(p) ==
    /\ pc[p] = "iterdir"
    /\ \E src \in FirstListed(p) :
         IF SubDirs(p) = {}
         THEN /\ pc' = [pc EXCEPT ![p] = "raised"]
              /\ Returns(p, Raise("RuntimeError: Extraction failed"), <<>>)
              /\ UNCHANGED loc
         ELSE /\ pc' = [pc EXCEPT ![p] = "mkdir"]
              /\ loc' = [loc EXCEPT ![p].src = src]
              /\ UNCHANGED trace
    /\ UNCHANGED <<RaceFrame, base_dirs, installed, scratch>>

\* lines 135-136
Mkdir(p) ==
    /\ pc[p] = "mkdir"
    /\ base_dirs' = base_dirs \cup {UnitBase}
    /\ loc' = [loc EXCEPT ![p].dest = UnitBase \o <<loc[p].src.name>>]
    /\ pc' = [pc EXCEPT ![p] = "exists"]
    /\ UNCHANGED <<RaceFrame, installed, scratch, trace>>

\* lines 137-139
ExistsTest(p) ==
    /\ pc[p] = "exists"
    /\ IF Exists(loc[p].dest)
       THEN /\ pc' = [pc EXCEPT ![p] = "returned"]
            /\ Returns(p, Ok(loc[p].dest),
                       <<[msg |-> "already exists", path |-> loc[p].dest]>>)
       ELSE /\ pc' = [pc EXCEPT ![p] = "move_isdir"]
            /\ UNCHANGED trace
    /\ UNCHANGED <<RaceFrame, base_dirs, installed, scratch, loc>>

\* line 140, shutil.move: a destination that is a directory receives the
\* source inside it, under the source's name
MoveIsdir(p) ==
    /\ pc[p] = "move_isdir"
    /\ LET inside == loc[p].dest \o <<loc[p].src.name>>
       IN  IF ~Exists(loc[p].dest)
           THEN /\ loc' = [loc EXCEPT ![p].real_dst = loc[p].dest]
                /\ pc' = [pc EXCEPT ![p] = "move_rename"]
                /\ UNCHANGED trace
           ELSE IF Exists(inside)
           THEN /\ pc' = [pc EXCEPT ![p] = "raised"]
                /\ Returns(p, Raise("shutil.Error: already exists"), <<>>)
                /\ UNCHANGED loc
           ELSE /\ loc' = [loc EXCEPT ![p].real_dst = inside]
                /\ pc' = [pc EXCEPT ![p] = "move_rename"]
                /\ UNCHANGED trace
    /\ UNCHANGED <<RaceFrame, base_dirs, installed, scratch>>

\* line 140, shutil.move: os.rename, and lines 141-142 when it succeeds
MoveRename(p) ==
    /\ pc[p] = "move_rename"
    /\ IF loc[p].same_device /\ ~Exists(loc[p].real_dst)
       THEN /\ installed' = installed \cup
                 {[path |-> loc[p].real_dst, tree |-> loc[p].src.tree]}
            /\ scratch' = [scratch EXCEPT ![p].entries = @ \ {loc[p].src}]
            /\ pc' = [pc EXCEPT ![p] = "returned"]
            /\ Returns(p, Ok(loc[p].dest),
                       <<[msg |-> "Moved JDK to", path |-> loc[p].dest]>>)
       ELSE /\ pc' = [pc EXCEPT ![p] = "copytree_makedirs"]
            /\ UNCHANGED <<installed, scratch, trace>>
    /\ UNCHANGED <<RaceFrame, base_dirs, loc>>

\* line 140, shutil.move: copytree creates the destination directory
CopytreeMakedirs(p) ==
    /\ pc[p] = "copytree_makedirs"
    /\ IF Exists(loc[p].real_dst)
       THEN /\ pc' = [pc EXCEPT ![p] = "raised"]
            /\ Returns(p, Raise("FileExistsError"), <<>>)
            /\ UNCHANGED installed
       ELSE /\ installed' = installed \cup
                 {[path |-> loc[p].real_dst,
                   tree |-> Tree(loc[p].src.tree.build, FALSE)]}
            /\ pc' = [pc EXCEPT ![p] = "copytree_copy"]
            /\ UNCHANGED trace
    /\ UNCHANGED <<RaceFrame, base_dirs, scratch, loc>>

\* line 140, shutil.move: copytree has copied the last file
CopytreeCopy(p) ==
    /\ pc[p] = "copytree_copy"
    /\ installed' =
         { IF e.path = loc[p].real_dst
           THEN [path |-> e.path, tree |-> loc[p].src.tree] ELSE e :
           e \in installed }
    /\ pc' = [pc EXCEPT ![p] = "move_rmtree"]
    /\ UNCHANGED <<RaceFrame, base_dirs, scratch, loc, trace>>

\* line 140, shutil.move: rmtree of the source; lines 141-142
MoveRmtree(p) ==
    /\ pc[p] = "move_rmtree"
    /\ scratch' = [scratch EXCEPT ![p].entries = @ \ {loc[p].src}]
    /\ pc' = [pc EXCEPT ![p] = "returned"]
    /\ Returns(p, Ok(loc[p].dest),
               <<[msg |-> "Moved JDK to", path |-> loc[p].dest]>>)
    /\ UNCHANGED <<RaceFrame, base_dirs, installed, loc>>

NextRace ==
    \E p \in Procs :
       \/ Iterdir(p)
       \/ Mkdir(p)
       \/ ExistsTest(p)
       \/ MoveIsdir(p)
       \/ MoveRename(p)
       \/ CopytreeMakedirs(p)
       \/ CopytreeCopy(p)
       \/ MoveRmtree(p)

SpecRace == InitRace /\ [][NextRace]_vars

----------------------------------------------------------------------------
(* setup_java, one action per step; the machine is one the tool never ran  *)
(* on, and setup_java is invoked up to MaxRuns times, one after another    *)

HomeOf(sys, root) ==
    IF root THEN <<"/", "root">>
    ELSE IF sys = "darwin" THEN <<"/", "Users", "dev">>
    ELSE <<"/", "home", "dev">>

InitFiles ==
    { [n \in ProfileNames |-> NoFile],
      [n \in ProfileNames |-> IF n = ".bashrc" THEN <<OtherLine>>
                              ELSE NoFile],
      [n \in ProfileNames |-> IF n \in {".zprofile", ".profile"} THEN <<>>
                              ELSE NoFile] }

Init ==
    /\ system \in Systems
    /\ machine \in Machines
    /\ is_root \in BOOLEAN
    /\ SHELL \in { <<"/bin/", "bash">>, <<"/bin/", "zsh">> }
    /\ home = HomeOf(system, is_root)
    /\ ProgramFiles = NoPath
    /\ files \in InitFiles
    /\ base_dirs = {}
    /\ installed = {}
    /\ scratch = [d \in {} |-> NoDir]
    /\ userenv = [JAVA_HOME |-> NoPath, PATH |-> <<>>]
    /\ RunIdle
    /\ trace = <<>>

Say(m, p) == [msg |-> m, path |-> p]

\* tempfile.mkdtemp(): a directory no one else has
mkdtemp(scr, d) ==
    [x \in DOMAIN scr \cup {d} |->
        IF x = d THEN [exists |-> TRUE, entries |-> {}] ELSE scr[x]]

\* shutil.rmtree(d, ignore_errors=True)
rmtree(scr, d) == [x \in DOMAIN scr \ {d} |-> scr[x]]

\* the exception caught and dropped: the run goes on to the version query
RaiseTo_Swallowed(handler, e) ==
    /\ loc' = [loc EXCEPT !.pending = e]
    /\ pc' = "verifying"

\* an exception raised inside a try block travels to its finally block
RaiseTo(handler, e) ==
    /\ loc' = [loc EXCEPT !.pending = e]
    /\ pc' = handler

\* a call of setup_java (line 192)
Start ==
    /\ pc \in {"idle", "done", "failed"}
    /\ run < MaxRuns
    /\ run' = run + 1
    /\ pc' = "check"
    /\ loc' = NoLoc
    /\ result' = NoResult
    /\ error' = "none"
    /\ stdout' = <<>>
    /\ spawned' = <<>>
    /\ UNCHANGED <<ctxVars, fsVars, trace>>

ExistingResult == [java_bin |-> <<"java">>, jdk_root |-> NoPath,
                   mode |-> "existing"]

\* the early return of lines 193-195 missing: resolution goes ahead
CheckExisting_NoEarlyReturn ==
    /\ pc = "check"
    /\ spawned' = Append(spawned, Exec("java", <<"-version">>, <<"java">>))
    /\ \E found \in {"yes", "no"} :
         /\ loc' = [loc EXCEPT !.probe = found]
         /\ pc' = "resolving"
         /\ UNCHANGED <<result, stdout>>
    /\ UNCHANGED <<ctxVars, fsVars, run, error, trace>>

\* lines 193-195: ensure_java_installed() and the early return
CheckExisting ==
    /\ pc = "check"
    /\ spawned' = Append(spawned, Exec("java", <<"-version">>, <<"java">>))
    /\ \E found \in {"yes", "no"} :
         /\ loc' = [loc EXCEPT !.probe = found]
         /\ IF found = "yes"
            THEN /\ stdout' = Append(stdout,
                                     Say("Java is already installed", NoPath))
                 /\ result' = ExistingResult
                 /\ pc' = "done"
            ELSE /\ pc' = "resolving"
                 /\ UNCHANGED <<result, stdout>>
    /\ UNCHANGED <<ctxVars, fsVars, run, error, trace>>

Fail(e) ==
    /\ error' = e
    /\ pc' = "failed"

\* result sets the metadata service returns to a run
RunResultSets == { d \in ResultSets : Len(d) <= 1 }

\* lines 197-200: normalize_os_arch and get_latest_zulu, outside any try
Resolving ==
    /\ pc = "resolving"
    /\ LET n == normalize_os_arch(system, machine)
       IN  IF ~n.ok
           THEN Fail(n.err) /\ UNCHANGED <<loc, stdout>>
           ELSE \E http \in {"ok", "HTTPError"}, data \in RunResultSets :
                  LET r == get_latest_zulu(n.val.os_name, data)
                  IN  IF http /= "ok"
                      THEN Fail(http) /\ UNCHANGED <<loc, stdout>>
                      ELSE IF ~r.ok
                      THEN Fail(r.err) /\ UNCHANGED <<loc, stdout>>
                      ELSE /\ loc' = [loc EXCEPT
                                        !.os_name = n.val.os_name,
                                        !.arch = n.val.arch,
                                        !.url = r.val.download_url,
                                        !.fname = r.val.name]
                           /\ stdout' = Append(stdout,
                                  Say("Found Azul JDK package", r.val.name))
                           /\ pc' = "mkdtemp"
                           /\ UNCHANGED error
    /\ UNCHANGED <<ctxVars, fsVars, run, result, spawned, trace>>

\* line 202: the download directory
MakeTmpdir ==
    /\ pc = "mkdtemp"
    /\ \E io \in {"ok", "OSError: mkdtemp"} :
         IF io /= "ok"
         THEN Fail(io) /\ UNCHANGED <<loc, scratch>>
         ELSE /\ scratch' = mkdtemp(scratch, 2 * run - 1)
              /\ loc' = [loc EXCEPT !.tmpdir = 2 * run - 1]
              /\ pc' = "downloading"
              /\ UNCHANGED error
    /\ UNCHANGED <<ctxVars, files, base_dirs, installed, userenv, run,
                   result, stdout, spawned, trace>>

\* lines 204-205: download_file; a transfer that breaks after the file was
\* opened leaves the part written so far
Downloading ==
    /\ pc = "downloading"
    /\ \E io \in {"ok", "HTTPError", "ConnectionError"} :
         /\ scratch' = IF io = "HTTPError" THEN scratch
                       ELSE [scratch EXCEPT ![loc.tmpdir].entries =
                                                @ \cup {File(loc.fname)}]
         /\ IF io = "ok"
            THEN /\ stdout' = stdout \o << Say("Downloading", NoPath),
                                           Say("Saved", loc.fname) >>
                 /\ pc' = "installing"
                 /\ UNCHANGED loc
            ELSE /\ stdout' = Append(stdout, Say("Downloading", NoPath))
                 /\ RaiseTo("finally_outer", io)
    /\ UNCHANGED <<ctxVars, files, base_dirs, installed, userenv, run,
                   result, error, spawned, trace>>

IsMsi == loc.os_name = "windows" /\ EndsWith(LowerName(loc.fname), ".msi")

\* the else of line 212 missing: the archive path follows the installer
InstallMsi_ThenArchive ==
    /\ pc = "installing"
    /\ IsMsi
    /\ \E io \in {"ok", "CalledProcessError"} :
         LET r == install_zulu_msi(<<"tmpdir">> \o loc.fname, io)
         IN  /\ spawned' = spawned \o r.spawned
             /\ stdout' = stdout \o r.out
             /\ IF r.ok
                THEN /\ loc' = [loc EXCEPT !.java_bin = <<"java">>,
                                           !.jdk_root = NoPath,
                                           !.mode = "msi"]
                     /\ pc' = "mkdtemp_extract"
                ELSE RaiseTo("finally_outer", r.err)
    /\ UNCHANGED <<ctxVars, fsVars, run, result, error, trace>>

\* lines 207-211: install_zulu_msi
InstallMsi ==
    /\ pc = "installing"
    /\ IsMsi
    /\ \E io \in {"ok", "CalledProcessError"} :
         LET r == install_zulu_msi(<<"tmpdir">> \o loc.fname, io)
         IN  /\ spawned' = spawned \o r.spawned
             /\ stdout' = stdout \o r.out
             /\ IF r.ok
                THEN /\ loc' = [loc EXCEPT !.java_bin = <<"java">>,
                                           !.jdk_root = NoPath,
                                           !.mode = "msi"]
                     /\ pc' = "finally_outer"
                ELSE RaiseTo("finally_outer", r.err)
    /\ UNCHANGED <<ctxVars, fsVars, run, result, error, trace>>

\* line 213
ChooseBase ==
    /\ pc = "installing"
    /\ ~IsMsi
    /\ LET r == choose_permanent_base(loc.os_name, is_root, home,
                                      ProgramFiles)
       IN  IF r.ok
           THEN /\ loc' = [loc EXCEPT !.base = r.val]
                /\ pc' = "mkdtemp_extract"
           ELSE RaiseTo("finally_outer", r.err)
    /\ UNCHANGED <<ctxVars, fsVars, run, result, error, stdout, spawned, trace>>

\* line 214: the extraction directory
MakeTmpExtract ==
    /\ pc = "mkdtemp_extract"
    /\ \E io \in {"ok", "OSError: mkdtemp"} :
         IF io /= "ok"
         THEN RaiseTo("finally_outer", io) /\ UNCHANGED scratch
         ELSE /\ scratch' = mkdtemp(scratch, 2 * run)
              /\ loc' = [loc EXCEPT !.tmp_extract = 2 * run]
              /\ pc' = "extracting"
    /\ UNCHANGED <<ctxVars, files, base_dirs, installed, userenv, run,
                   result, error, stdout, spawned, trace>>

\* line 217: extract_archive
Extracting ==
    /\ pc = "extracting"
    /\ \E content \in ArchiveContents, io \in {"ok", "BadArchive"} :
         LET r == extract_archive(loc.fname, content, io)
         IN  IF r.ok
             THEN /\ scratch' = [scratch EXCEPT ![loc.tmp_extract].entries =
                                                  Unpacked(r.val, run)]
                  /\ stdout' = Append(stdout, Say("Extracted to", NoPath))
                  /\ pc' = "relocating"
                  /\ UNCHANGED loc
             ELSE /\ RaiseTo("finally_inner", r.err)
                  /\ UNCHANGED <<scratch, stdout>>
    /\ UNCHANGED <<ctxVars, files, base_dirs, installed, userenv, run,
                   result, error, spawned, trace>>

\* line 218: move_extracted_to_base
Relocating ==
    /\ pc = "relocating"
    /\ \E src \in FirstListed(loc.tmp_extract), io \in RelocIO :
         LET r == move_extracted_to_base(loc.tmp_extract, loc.base, src, io)
         IN  /\ base_dirs' = r.base_dirs
             /\ installed' = r.installed
             /\ scratch' = r.scratch
             /\ stdout' = stdout \o r.out
             /\ IF r.ok
                THEN /\ loc' = [loc EXCEPT !.jdk_root = r.val]
                     /\ pc' = "finally_inner"
                ELSE RaiseTo("finally_inner", r.err)
    /\ UNCHANGED <<ctxVars, files, userenv, run, result, error, spawned, trace>>

\* persistence reached from the finally clause whether or not an exception
\* is on its way
FinallyInner_PersistAnyway ==
    /\ pc = "finally_inner"
    /\ scratch' = rmtree(scratch, loc.tmp_extract)
    /\ pc' = "persisting"
    /\ UNCHANGED <<ctxVars, files, base_dirs, installed, userenv, run, loc,
                   result, error, stdout, spawned, trace>>

\* lines 219-220
FinallyInner ==
    /\ pc = "finally_inner"
    /\ scratch' = rmtree(scratch, loc.tmp_extract)
    /\ pc' = IF loc.pending = "none" THEN "persisting" ELSE "finally_outer"
    /\ UNCHANGED <<ctxVars, files, base_dirs, installed, userenv, run, loc,
                   result, error, stdout, spawned, trace>>

\* lines 222-228
Persisting ==
    /\ pc = "persisting"
    /\ IF loc.os_name = "windows"
       THEN /\ userenv' = persist_env_windows_user(userenv, loc.jdk_root,
                                                   userenv)
            /\ loc' = [loc EXCEPT
                         !.java_bin = loc.jdk_root \o <<"bin", "java.exe">>,
                         !.mode = "portable"]
            /\ stdout' = Append(stdout,
                                Say("Set JAVA_HOME and updated PATH", NoPath))
            /\ pc' = "finally_outer"
            /\ spawned' = spawned \o SetxCommands(loc.jdk_root)
            /\ UNCHANGED files
       ELSE \E io \in PosixIO :
              LET r == persist_env_posix(files, SHELL, loc.jdk_root, io)
              IN  /\ files' = r.files
                  /\ stdout' = stdout \o r.out
                  /\ UNCHANGED <<userenv, spawned>>
                  /\ IF r.ok
                     THEN /\ loc' = [loc EXCEPT
                                 !.java_bin = loc.jdk_root \o <<"bin", "java">>,
                                 !.mode = "portable"]
                          /\ pc' = "finally_outer"
                     ELSE RaiseTo("finally_outer", r.err)
    /\ UNCHANGED <<ctxVars, base_dirs, installed, scratch, run, result,
                   error, trace>>

\* rmtree at the end of the try body instead of in a finally clause
FinallyOuter_OnlyOnSuccess ==
    /\ pc = "finally_outer"
    /\ IF loc.pending = "none"
       THEN /\ scratch' = rmtree(scratch, loc.tmpdir)
            /\ pc' = "verifying"
            /\ UNCHANGED error
       ELSE Fail(loc.pending) /\ UNCHANGED scratch
    /\ UNCHANGED <<ctxVars, files, base_dirs, installed, userenv, run, loc,
                   result, stdout, spawned, trace>>

\* lines 229-230; an exception on its way out leaves setup_java here
FinallyOuter ==
    /\ pc = "finally_outer"
    /\ scratch' = rmtree(scratch, loc.tmpdir)
    /\ IF loc.pending = "none"
       THEN pc' = "verifying" /\ UNCHANGED error
       ELSE Fail(loc.pending)
    /\ UNCHANGED <<ctxVars, files, base_dirs, installed, userenv, run, loc,
                   result, stdout, spawned, trace>>

\* the except clause of lines 236-237 missing: a launch failure propagates
Verifying_LaunchFailureRaises ==
    /\ pc = "verifying"
    /\ spawned' = Append(spawned, Exec("java_bin", <<"-version">>,
                                        loc.java_bin))
    /\ \E v \in {"ok", "nonzero exit", "cannot launch"} :
         IF v = "cannot launch"
         THEN Fail("FileNotFoundError") /\ UNCHANGED <<result, stdout>>
         ELSE /\ stdout' = Append(stdout, Say("Java version", NoPath))
              /\ result' = [java_bin |-> loc.java_bin,
                            jdk_root |-> loc.jdk_root, mode |-> loc.mode,
                            os |-> loc.os_name, arch |-> loc.arch]
              /\ pc' = "done"
              /\ UNCHANGED error
    /\ UNCHANGED <<ctxVars, fsVars, run, loc, trace>>

\* lines 232-259: the version query, whose failure is only printed, and
\* the return value
Verifying ==
    /\ pc = "verifying"
    /\ \E v \in {"ok", "nonzero exit", "cannot launch"} :
         stdout' = Append(stdout,
                          Say(IF v = "cannot launch"
                              THEN "Java check failed" ELSE "Java version",
                              NoPath))
    /\ result' = [java_bin |-> loc.java_bin, jdk_root |-> loc.jdk_root,
                  mode |-> loc.mode, os |-> loc.os_name, arch |-> loc.arch]
    /\ spawned' = Append(spawned, Exec("java_bin", <<"-version">>,
                                        loc.java_bin))
    /\ pc' = "done"
    /\ UNCHANGED <<ctxVars, fsVars, run, loc, error, trace>>

Next ==
    \/ Start
    \/ CheckExisting
    \/ Resolving
    \/ MakeTmpdir
    \/ Downloading
    \/ InstallMsi
    \/ ChooseBase
    \/ MakeTmpExtract
    \/ Extracting
    \/ Relocating
    \/ FinallyInner
    \/ Persisting
    \/ FinallyOuter
    \/ Verifying

Spec == Init /\ [][Next]_vars

----------------------------------------------------------------------------
(* Properties of choose_permanent_base (SpecBase) *)

PolicyBase(os, root, hm, pf) ==
    CASE os = "linux" /\ root -> <<"/", "usr", "local", "lib", "jvm">>
      [] os = "linux" /\ ~root -> hm \o <<".local", "share", "java">>
      [] os = "macos" /\ root ->
           <<"/", "Library", "Java", "JavaVirtualMachines">>
      [] os = "macos" /\ ~root ->
           hm \o <<"Library", "Java", "JavaVirtualMachines">>
      [] OTHER ->
           (IF pf = NoPath THEN <<"C:", "Program Files">> ELSE pf)
             \o <<"Zulu">>

\* C7: for linux, macos and windows and either elevation status,
\* choose_permanent_base returns (never raises) and the path returned is
\* the policy table's entry.
C7_BaseIsPolicyEntry ==
    \A i \in 1..Len(trace) :
        trace[i].fn = "choose_permanent_base" =>
            /\ trace[i].ok
            /\ trace[i].val =
                 PolicyBase(OsOf(system), is_root, home, ProgramFiles)

----------------------------------------------------------------------------
(* Properties of get_latest_zulu (SpecResolve) *)

HasCracMarker(name) ==
    \E i \in 1..Len(name) : name[i] \in {"-crac-", "-CRAC-"}

FormatOf(name) ==
    LET last == name[Len(name)]
    IN  CASE last \in {".zip", ".ZIP"} -> "zip"
          [] last \in {".tar.gz", ".tgz"} -> "tarball"
          [] last = ".msi" -> "msi"
          [] OTHER -> "other"

Survivors(data, formats) ==
    { i \in 1..Len(data) :
        ~HasCracMarker(data[i].name) /\ FormatOf(data[i].name) \in formats }

NativeFormat(os) == IF os = "windows" THEN "msi" ELSE "tarball"

MinOf(S) == CHOOSE m \in S : \A n \in S : m <= n

ExpectedIndex(data, os) ==
    IF Survivors(data, {NativeFormat(os)}) /= {}
    THEN MinOf(Survivors(data, {NativeFormat(os)}))
    ELSE MinOf(Survivors(data, {"zip"}))

ResolveCalls ==
    { i \in 1..Len(trace) : trace[i].fn = "get_latest_zulu" }

\* C8: the resolver never returns a record whose name carries the
\* checkpoint/restore marker, and raises the not-found error when the
\* result set is empty or no record survives the filtering.
C8_NoCracElseNotFound ==
    \A i \in ResolveCalls :
        LET c == trace[i]
            os == OsOf(system)
        IN  /\ c.ok => ~HasCracMarker(c.val.name)
            /\ Survivors(c.data, {NativeFormat(os), "zip"}) = {} =>
                 /\ ~c.ok
                 /\ c.err \in {"ValueError: No matching Zulu JDK found.",
                               "ValueError: No suitable package found"}

\* a call where the only record of the preferred format carries the marker
\* and nothing else is acceptable: the not-found error is raised
C8_Witness ==
    \E i \in ResolveCalls :
        LET c == trace[i]
        IN  /\ ~c.ok
            /\ \E k \in 1..Len(c.data) :
                 /\ HasCracMarker(c.data[k].name)
                 /\ FormatOf(c.data[k].name) = NativeFormat(OsOf(system))

\* C9: the first surviving record of the OS's native format (.msi on
\* windows, tarball on linux and macos) is returned even when a .zip
\* record comes earlier; without one, the first surviving .zip record.
C9_FormatPreference ==
    \A i \in ResolveCalls :
        LET c == trace[i]
            os == OsOf(system)
        IN  Survivors(c.data, {NativeFormat(os), "zip"}) /= {} =>
              /\ c.ok
              /\ c.val.download_url = ExpectedIndex(c.data, os)
              /\ c.val.name = c.data[ExpectedIndex(c.data, os)].name

\* windows, a surviving .zip listed before a surviving .msi: the .msi wins
C9_Witness ==
    \E i \in ResolveCalls :
        LET c == trace[i]
        IN  /\ OsOf(system) = "windows"
            /\ c.ok
            /\ Survivors(c.data, {"msi"}) /= {}
            /\ Survivors(c.data, {"zip"}) /= {}
            /\ MinOf(Survivors(c.data, {"zip"}))
                 < MinOf(Survivors(c.data, {"msi"}))
            /\ c.val.download_url = MinOf(Survivors(c.data, {"msi"}))

----------------------------------------------------------------------------
(* Properties of persist_env_posix (SpecPosix) *)

PersistCalls ==
    { i \in 1..Len(trace) : trace[i].fn = "persist_env_posix" }

IsCallStep(fn) ==
    /\ Len(trace') = Len(trace) + 1
    /\ trace'[Len(trace')].fn = fn

\* C3 (as stated): after two or more calls that returned, the startup
\* file written to holds exactly one occurrence of the managed marker,
\* whatever it held before the first call.
C3_ExactlyOneMarker ==
    (Cardinality(PersistCalls) >= 2 /\ \A i \in PersistCalls : trace[i].ok)
        => MarkerCount(files[trace[Len(trace)].target]) = 1

\* C3 (amended): a call that returns leaves max(1, n) occurrences of the
\* marker in its target, n being the number before the call; a call that
\* finds the marker writes nothing; no other startup file is touched.
C3_MarkerNeverAdded ==
    [][ (IsCallStep("persist_env_posix") /\ trace'[Len(trace')].ok) =>
          LET t == trace'[Len(trace')].target
          IN  /\ MarkerCount(files'[t]) = Max(1, MarkerCount(files[t]))
              /\ HasMarker(files[t]) => files' = files
              /\ \A n \in ProfileNames \ {t} : files'[n] = files[n]
      ]_vars

\* two calls returned: the first appended the block to a file without the
\* marker, the second found it and wrote nothing
C3_Witness ==
    /\ Len(trace) >= 2
    /\ trace[1].fn = "persist_env_posix" /\ trace[1].ok
    /\ trace[2].fn = "persist_env_posix" /\ trace[2].ok
    /\ trace[1].out /= <<>>
    /\ trace[2].out = <<>>
    /\ trace[1].target = trace[2].target
    /\ MarkerCount(files[trace[2].target]) = 1

----------------------------------------------------------------------------
(* Properties of move_extracted_to_base (SpecRelocate) *)

RelocCalls ==
    { i \in 1..Len(trace) : trace[i].fn = "move_extracted_to_base" }

Printed(c, m) == \E k \in 1..Len(c.out) : c.out[k].msg = m

\* C4: of two calls with the same base directory and distribution name,
\* the second does not raise and what it returns tells the caller that
\* an existing directory was reused, unlike what the first returned.
C4_ReuseIsReported ==
    \A i, j \in RelocCalls :
        ( /\ i < j
          /\ trace[i].base = trace[j].base
          /\ trace[i].src_root = trace[j].src_root
          /\ trace[i].ok
          /\ Printed(trace[i], "Moved JDK to") )
        => /\ trace[j].ok
           /\ trace[j].val /= trace[i].val

\* C5: a call on a scratch directory without subdirectories raises the
\* extraction error and changes nothing on the filesystem: the base
\* directory is not created and nothing is moved.
C5_EmptyScratchNoMutation ==
    [][ ( /\ IsCallStep("move_extracted_to_base")
          /\ SubDirs(trace'[Len(trace')].tmp) = {} )
        => /\ ~trace'[Len(trace')].ok
           /\ trace'[Len(trace')].err = "RuntimeError: Extraction failed"
           /\ UNCHANGED fsVars
      ]_vars

\* the call raised on an empty scratch directory and the base directory
\* still does not exist
C5_Witness ==
    /\ Len(trace) >= 1
    /\ trace[Len(trace)].fn = "move_extracted_to_base"
    /\ trace[Len(trace)].err = "RuntimeError: Extraction failed"
    /\ SubDirs(trace[Len(trace)].tmp) = {}
    /\ trace[Len(trace)].base \notin base_dirs

----------------------------------------------------------------------------
(* Properties of setup_java (Spec) *)

Returned == pc = "done"
Raised == pc = "failed"

C2_ExistingShortCircuit ==
    [][ (loc'.probe = "yes" /\ run' = run) =>
          /\ pc' = "done"
          /\ result' = ExistingResult
          /\ loc' = [NoLoc EXCEPT !.probe = "yes"]
          /\ UNCHANGED fsVars
      ]_vars

\* a run returned mode existing after the probe found a runtime
C2_Witness ==
    /\ Returned
    /\ loc.probe = "yes"
    /\ result.mode = "existing"

PersistErrors == {"OSError: read_text", "OSError: open"}

\* C6: a failure of environment persistence after a successful relocate
\* does not abort the run: setup_java never raises a persistence error
\* (it returns mode portable with env_integrated false instead).
C6_PersistFailureNotFatal ==
    Raised => error \notin PersistErrors

ScenarioDest == <<"/", "home", "dev", ".local", "share", "java", Stem>>

\* scenario A: first run on linux/x86_64, not root, no runtime found, the
\* service returned the .tar.gz record, the archive held the distribution
ScenarioA ==
    /\ system = "linux" /\ machine = "x86_64" /\ ~is_root
    /\ run = 1
    /\ loc.probe = "no"
    /\ loc.fname = <<Stem, ".tar.gz">>
    /\ loc.jdk_root = ScenarioDest

IsPrefix(p, q) == Len(p) <= Len(q) /\ \A i \in 1..Len(p) : p[i] = q[i]

EndsWithBlock(text, jdk_root) ==
    /\ Len(text) >= Len(Block(jdk_root))
    /\ SubSeq(text, Len(text) - Len(Block(jdk_root)) + 1, Len(text))
         = Block(jdk_root)

ScenarioAEffects ==
    /\ IsPrefix(<< Say("Found Azul JDK package", <<Stem, ".tar.gz">>),
                   Say("Downloading", NoPath),
                   Say("Saved", <<Stem, ".tar.gz">>),
                   Say("Extracted to", NoPath),
                   Say("Moved JDK to", ScenarioDest),
                   Say("Added JAVA_HOME/PATH", <<Target(files, SHELL)>>) >>,
                stdout)
    /\ [path |-> ScenarioDest, tree |-> Tree(1, TRUE)] \in installed
    /\ EndsWithBlock(files[Target(files, SHELL)], ScenarioDest)
    /\ MarkerCount(files[Target(files, SHELL)]) = 1
    /\ result.mode = "portable"
    /\ result.jdk_root = ScenarioDest

\* C10: scenario A downloads, unpacks, moves the tree to
\* ~/.local/share/java/zulu21-ca-jdk-linux_x64 and appends the managed
\* block to the rc file, in that order, and the result reports mode
\* portable and env_integrated true.
C10_ScenarioA ==
    (Returned /\ ScenarioA) =>
        /\ ScenarioAEffects
        /\ "env_integrated" \in DOMAIN result
        /\ result.env_integrated = TRUE

ArchivePcs == {"mkdtemp_extract", "extracting", "relocating",
               "finally_inner", "persisting"}

SilentMsiexec(c) ==
    /\ c.cmd = "msiexec"
    /\ \E i \in 1..Len(c.args) : c.args[i] = "/qn"
    /\ \E i \in 1..Len(c.args) :
         c.args[i] = "ADDLOCAL=FeatureJavaHome,FeatureEnvironment"

EarlyPcs == {"check", "resolving", "mkdtemp", "downloading"}

EarlyErrors ==
    {"ValueError: Unsupported OS", "ValueError: Unsupported architecture",
     "ValueError: No matching Zulu JDK found.",
     "ValueError: No suitable package found", "HTTPError", "ConnectionError"}

\* C12: once a stage has failed, only the finally blocks run and
\* setup_java raises without a result; up to and including a failure of
\* resolution or download, base directories, installed trees, startup
\* files and the user environment are unchanged.
C12_FailureAborts ==
    [][ /\ loc'.pending /= "none" =>
             /\ pc' \in {"finally_inner", "finally_outer", "failed"}
             /\ result' = NoResult
        /\ pc' = "failed" => (result' = NoResult /\ error' /= "none")
        /\ pc' = "done" => (loc'.pending = "none" /\ error' = "none")
        /\ ( /\ run' = run
             /\ \/ pc \in EarlyPcs
                \/ loc'.pending \in EarlyErrors
                \/ error' \in EarlyErrors )
           => UNCHANGED <<files, base_dirs, installed, userenv>>
      ]_vars

\* a second run whose download broke raised, with the first run's install
\* and startup files as they were
C12_Witness ==
    /\ Raised
    /\ run = 2
    /\ error = "ConnectionError"
    /\ loc.tmpdir /= 0
    /\ result = NoResult
    /\ installed /= {}
    /\ \E n \in ProfileNames : HasMarker(files[n])

\* C13: whatever the version query does (runs, exits non-zero, cannot be
\* launched), setup_java returns, and what it returns is the executable
\* path, root and mode the install left in its locals.
C13_VerificationNeverAborts ==
    [][ pc = "verifying" =>
          /\ pc' \in {"verifying", "done"}
          /\ error' = "none"
          /\ pc' = "done" =>
               /\ result'.java_bin = loc.java_bin
               /\ result'.jdk_root = loc.jdk_root
               /\ result'.mode = loc.mode
               /\ UNCHANGED fsVars
      ]_vars

\* the installed executable could not be launched and the run returned the
\* portable install all the same
C13_Witness ==
    /\ Returned
    /\ stdout[Len(stdout)].msg = "Java check failed"
    /\ result.mode = "portable"
    /\ result.jdk_root /= NoPath
    /\ result.java_bin = result.jdk_root \o <<"bin", "java">>

----------------------------------------------------------------------------
(* Choice of the startup file (SpecPosix) *)

UsesZsh == \E i \in 1..Len(SHELL) : SHELL[i] = "zsh"

Present(n) == files[n] /= NoFile

\* C16: a call changes at most one startup file: for a zsh login shell
\* .zshrc if present, else .zprofile if present; for any other shell
\* .bashrc if present; .profile when none of these is; every other
\* startup file keeps its content.
C16_OneTargetFile ==
    [][ IsCallStep("persist_env_posix")
        => LET t == IF UsesZsh /\ Present(".zshrc") THEN ".zshrc"
                    ELSE IF UsesZsh /\ Present(".zprofile") THEN ".zprofile"
                    ELSE IF ~UsesZsh /\ Present(".bashrc") THEN ".bashrc"
                    ELSE ".profile"
           IN  /\ trace'[Len(trace')].target = t
               /\ \A n \in ProfileNames \ {t} : files'[n] = files[n]
               /\ Printed(trace'[Len(trace')], "Added JAVA_HOME/PATH")
                    => \E r \in JdkRoots :
                         files'[t] = (IF Present(t) THEN files[t] ELSE <<>>)
                                       \o Block(r)
      ]_vars

\* a zsh user without .zshrc: the block went to .zprofile, and .bashrc
\* and .profile, both present, carry no marker
C16_Witness ==
    /\ Len(trace) = 1
    /\ UsesZsh
    /\ trace[1].target = ".zprofile"
    /\ Printed(trace[1], "Added JAVA_HOME/PATH")
    /\ files[".zshrc"] = NoFile
    /\ HasMarker(files[".zprofile"])
    /\ files[".bashrc"] = <<OtherLine>>
    /\ files[".profile"] = <<OtherLine>>

----------------------------------------------------------------------------
(* Reuse of an existing destination (SpecRelocate) *)

LastCall == trace'[Len(trace')]

\* C15: a call that finds base/<name> already there does not raise and
\* returns that path; what is installed there stays as it was and the
\* unpacked tree stays in the scratch directory.
C15_ExistingDestinationKept ==
    [][ ( /\ IsCallStep("move_extracted_to_base")
          /\ SubDirs(LastCall.tmp) /= {}
          /\ \E e \in installed :
                e.path = LastCall.base \o <<LastCall.src_root>> )
        => /\ LastCall.ok
           /\ LastCall.err = "none"
           /\ LastCall.val = LastCall.base \o <<LastCall.src_root>>
           /\ ~Printed(LastCall, "Moved JDK to")
           /\ UNCHANGED <<installed, scratch, files, userenv>>
      ]_vars

\* the second of two calls for one name found the first one's directory:
\* that directory still holds the first build and the second build is
\* still in its scratch directory
C15_Witness ==
    /\ Len(trace) = 2
    /\ trace[1].ok /\ Printed(trace[1], "Moved JDK to")
    /\ trace[2].ok /\ Printed(trace[2], "already exists")
    /\ trace[2].val = trace[1].val
    /\ \E e \in installed : e.path = trace[2].val /\ e.tree = Tree(1, TRUE)
    /\ Dir(trace[2].src_root, Tree(2, TRUE)) \in scratch[2].entries

----------------------------------------------------------------------------
(* Properties of persist_env_windows_user (SpecWindows) *)

WinCalls ==
    { i \in 1..Len(trace) : trace[i].fn = "persist_env_windows_user" }

\* entries of a PATH that name the bin directory of JAVA_HOME, written
\* with the variable or with its value
JavaBinEntries(path, jdk_root) ==
    { i \in 1..Len(path) :
        path[i] = JavaHomeBin \/ path[i] = jdk_root \o <<"bin">> }

\* C14: after any number of calls with one runtime root, each made by a
\* process started from the user store the previous call left, the user
\* PATH holds exactly one JAVA_HOME bin entry and JAVA_HOME is that root.
C14_WindowsPersistIdempotent ==
    ( /\ WinCalls /= {}
      /\ \A i \in WinCalls :
           trace[i].fresh /\ trace[i].jdk_root = trace[1].jdk_root )
    => /\ userenv.JAVA_HOME = trace[1].jdk_root
       /\ Cardinality(JavaBinEntries(userenv.PATH, trace[1].jdk_root)) = 1

----------------------------------------------------------------------------
(* The managed block across runs (Spec) *)

ExportedRoots(text) ==
    { text[i].root : i \in { j \in 1..Len(text) :
                               text[j].k = "export JAVA_HOME=" } }

Managed == { n \in ProfileNames : FileExists(files, n) /\ HasMarker(files[n]) }

\* C17: whenever a portable run on a POSIX system has returned, a startup
\* file holds the managed block and the JAVA_HOME it exports is the
\* jdk_root of the result just returned.
C17_BlockFollowsResult ==
    (Returned /\ result.mode = "portable" /\ OsOf(system) /= "windows")
    => /\ Managed /= {}
       /\ \A n \in Managed : ExportedRoots(files[n]) = {result.jdk_root}

----------------------------------------------------------------------------
(* Order of relocation and persistence (Spec) *)

IsUnder(path, base) ==
    /\ Len(path) = Len(base) + 1
    /\ SubSeq(path, 1, Len(base)) = base

\* C18: persistence is entered only from a relocation that returned; when
\* it runs, the root it records is a directory present under the base
\* directory; startup files and user variables change in no other step,
\* and not at all once a step of the run has raised.
C18_PersistAfterRelocate ==
    [][ /\ (pc' = "persisting" /\ pc /= "persisting")
           => /\ pc = "finally_inner"
              /\ loc.pending = "none"
              /\ loc.jdk_root /= NoPath
        /\ pc = "persisting"
           => /\ loc.base \in base_dirs
              /\ IsUnder(loc.jdk_root, loc.base)
              /\ \E e \in installed : e.path = loc.jdk_root
        /\ (files' /= files \/ userenv' /= userenv) => pc = "persisting"
        /\ (loc.pending /= "none" /\ run' = run)
           => /\ pc' /= "persisting"
              /\ UNCHANGED <<files, userenv>>
      ]_vars

\* persistence has just written the block for a root that is installed
C18_Witness ==
    /\ pc = "finally_outer"
    /\ loc.pending = "none"
    /\ loc.mode = "portable"
    /\ \E e \in installed : e.path = loc.jdk_root
    /\ \E n \in Managed : ExportedRoots(files[n]) = {loc.jdk_root}

----------------------------------------------------------------------------
(* Two relocations at once (SpecRace) *)

RaceOver == \A p \in Procs : pc[p] \in {"returned", "raised"}

\* C19: in whatever order the steps of the two invocations are taken,
\* neither raises, and when both are over the base directory holds the
\* distribution once: one complete tree at base/<name>, nothing nested
\* inside it and nothing half copied.
C19_ConcurrentRelocationSafe ==
    /\ \A p \in Procs : pc[p] /= "raised"
    /\ RaceOver
       => \A p \in Procs :
            LET here == { e \in installed :
                            /\ Len(e.path) >= Len(loc[p].dest)
                            /\ SubSeq(e.path, 1, Len(loc[p].dest))
                                 = loc[p].dest }
            IN  /\ Cardinality(here) = 1
                /\ \A e \in here : e.path = loc[p].dest /\ e.tree.complete

====
